---- MODULE Spec2Model ----
(***************************************************************************)
(* A model of the Pushwoosh API client of src/lib/index.js.  The file      *)
(* holds three revisions of the client, one after the other:               *)
(*   "got"      lines   1-210  class PushwooshClient on got (the current)  *)
(*   "factory"  lines 212-420  factory function on request-promise         *)
(*   "rp"       lines 422-643  class PushwooshClient on request-promise    *)
(* The variable rev says which revision a behaviour runs.                  *)
(***************************************************************************)
EXTENDS Integers, Sequences, FiniteSets, TLC

VARIABLES rev, client, ctor, call, pc, answer, reg, psr, future, cbLog,
          settles, requests, ncalls

vars == <<rev, client, ctor, call, pc, answer, reg, psr, future, cbLog,
          settles, requests, ncalls>>

\* The number of public calls one behaviour makes on its client.
MaxCalls == 2

Revisions == {"got", "factory", "rp"}

(***************************************************************************)
(* JavaScript values.  Every value is a record of the same shape: t is the *)
(* type (or the class of an error), s a string payload (a string's text,   *)
(* an error's message, a function's name), n a number's value and o the    *)
(* enumerable properties of an object, keyed by property name (an array's  *)
(* elements are keyed "0", "1", ... as in JavaScript).                     *)
(***************************************************************************)
NoProps == <<>>

Undefined == [t |-> "undefined", s |-> "", n |-> 0, o |-> NoProps]

Null == [t |-> "null", s |-> "", n |-> 0, o |-> NoProps]

Str(x) == [t |-> "string", s |-> x, n |-> 0, o |-> NoProps]

Num(x) == [t |-> "number", s |-> "", n |-> x, o |-> NoProps]

Bool(b) == [t |-> "boolean", s |-> "", n |-> IF b THEN 1 ELSE 0, o |-> NoProps]

Fn(name) == [t |-> "function", s |-> name, n |-> 0, o |-> NoProps]

Obj(props) == [t |-> "object", s |-> "", n |-> 0, o |-> props]

Digits == <<"0", "1", "2", "3", "4">>

Arr(elems) ==
    [t |-> "array", s |-> "", n |-> Len(elems),
     o |-> [k \in {Digits[i] : i \in 1..Len(elems)} |->
               elems[CHOOSE i \in 1..Len(elems) : Digits[i] = k]]]

\* new Error(message), and the errors of the runtime and of the transport
Error(message) == [t |-> "Error", s |-> message, n |-> 0, o |-> NoProps]

TypeError(message) == [t |-> "TypeError", s |-> message, n |-> 0, o |-> NoProps]

\* lodash predicates
isString(v) == v.t = "string"

isNumber(v) == v.t = "number"

isFunction(v) == v.t = "function"

isObject(v) == v.t \in {"object", "array", "function", "Error", "TypeError",
                        "RequestError", "HTTPError"}

has(v, key) == key \in DOMAIN v.o

\* v[key] on a value that is not undefined or null
Get(v, key) == IF key \in DOMAIN v.o THEN v.o[key] ELSE Undefined

\* JavaScript truthiness, as used by `||` and `if`
Truthy(v) ==
    CASE v.t \in {"undefined", "null"} -> FALSE
      [] v.t = "boolean" -> v.n = 1
      [] v.t = "number" -> v.n # 0
      [] v.t = "string" -> v.s # ""
      [] OTHER -> TRUE

\* a || b
Or(a, b) == IF Truthy(a) THEN a ELSE b

\* The characters of the strings the model passes where an object is expected.
Chars(str) ==
    CASE str = "hello" -> <<"h", "e", "l", "l", "o">>
      [] str = "x" -> <<"x">>
      [] OTHER -> <<>>

\* The enumerable properties _.extend copies from a source: a string source
\* gives its characters under their indexes, a function or a primitive none.
Props(v) ==
    CASE v.t \in {"object", "array"} -> v.o
      [] v.t = "string" ->
           [k \in {Digits[i] : i \in 1..Len(Chars(v.s))} |->
               Str(Chars(v.s)[CHOOSE i \in 1..Len(Chars(v.s)) : Digits[i] = k])]
      [] OTHER -> NoProps

\* _.extend(target, source) on property maps: the source's properties win.
extend(target, source) ==
    [k \in (DOMAIN target) \cup (DOMAIN source) |->
        IF k \in DOMAIN source THEN source[k] ELSE target[k]]

(***************************************************************************)
(* The client and its construction                                         *)
(***************************************************************************)
\* const defaults, lines 6-10
defaults ==
    [host |-> Str("cp.pushwoosh.com"),
     url |-> Str("https://cp.pushwoosh.com/json"),
     version |-> Str("1.3")]

DefaultTimeout == 31000

\* the guard of the constructor without its check of the token
ctorThrowsMutant(app, token) == ~isString(app)

\* the guard of the constructor: does it throw?
ctorThrows(app, token) == ~isString(app) \/ ~isString(token)

\* the client a successful construction gives
newClient(r, app, token, options) ==
    LET opts == Or(options, Obj(NoProps))
    IN  IF r = "got"
        THEN Obj(extend(extend(defaults, Props(opts)),
                        [app |-> app, token |-> token]))
        ELSE Obj([app |-> app,
                  token |-> token,
                  host |-> Or(Get(opts, "host"), defaults.host),
                  version |-> Or(Get(opts, "version"), defaults.version),
                  useAppGroup |-> Get(opts, "useAppGroup"),
                  timeout |-> Or(Get(opts, "timeout"), Num(DefaultTimeout))])

\* `this` (got, rp) or `self` (factory) inside a method.  The factory's
\* methods are arrow functions, so their `this` is the module's, the empty
\* exports object, and not the client.
Self == IF rev = "factory" THEN Obj(NoProps) ELSE client

NoCtor == [called |-> FALSE, app |-> Undefined, token |-> Undefined,
           options |-> Undefined, threw |-> FALSE]

NoCall == [op |-> "none", args |-> <<>>, cb |-> Undefined]

Pending == [st |-> "pending", v |-> Undefined]

Fulfilled(v) == [st |-> "fulfilled", v |-> v]

Rejected(v) == [st |-> "rejected", v |-> v]

(***************************************************************************)
(* The promise/callback helpers.  A helper's effect is the list of         *)
(* callback invocations it makes (each the list of arguments), the         *)
(* resolve/reject it performs on the promise it was given (at most one)    *)
(* and the exception it throws (at most one).                              *)
(***************************************************************************)
Settles(p) == [calls |-> <<>>, settle |-> <<p>>, thr |-> <<>>]

Throws(e) == [calls |-> <<>>, settle |-> <<>>, thr |-> <<e>>]

\* Function.prototype.apply with a number where the argument list should be
ApplyTypeError == TypeError("CreateListFromArrayLike called on non-object")

\* the factory calls _.takeRigh, which lodash does not have
TakeRighTypeError == TypeError("_.takeRigh is not a function")

\* the factory calls self.sendRequest on the module's `this`
SelfTypeError == TypeError("self.sendRequest is not a function")

\* handleSuccess(resolve, cb, x).  With a callback every revision evaluates
\* cb.apply(this, args.unshift(null)): unshift returns the new length, and
\* apply throws on a number.  "rp" takes the last two of (resolve, cb, x) as
\* the arguments, so it resolves with cb.
handleSuccess(r, cb, x) ==
    CASE r = "got" ->
           IF isFunction(cb) THEN Throws(ApplyTypeError)
           ELSE Settles(Fulfilled(x))
      [] r = "rp" ->
           IF isFunction(cb) THEN Throws(ApplyTypeError)
           ELSE Settles(Fulfilled(cb))
      [] r = "factory" -> Throws(TakeRighTypeError)

\* handleRejection(reject, cb, e)
handleRejection(r, cb, e) ==
    CASE r = "got" ->
           [calls |-> IF isFunction(cb) THEN << <<e>> >> ELSE <<>>,
            settle |-> <<Rejected(e)>>,
            thr |-> <<>>]
      [] r = "rp" ->
           [calls |-> IF isFunction(cb) THEN << <<cb, e>> >> ELSE <<>>,
            settle |-> <<Rejected(cb)>>,
            thr |-> <<>>]
      [] r = "factory" -> Throws(TakeRighTypeError)

\* What an effect asks of the promise whose executor or handler ran it: the
\* resolve/reject it performed, or the rejection a throwing executor causes.
ExecutorSettles(eff) ==
    IF eff.settle # <<>> THEN eff.settle
    ELSE IF eff.thr # <<>> THEN <<Rejected(eff.thr[1])>>
    ELSE <<>>

\* A promise settles once: later resolve/reject calls are ignored.
Settle(p, asked) == IF p.st = "pending" /\ asked # <<>> THEN asked[1] ELSE p

\* The promise a .then/.catch handler's run leaves for the next link.
Link(eff) ==
    IF eff.thr # <<>> THEN Rejected(eff.thr[1]) ELSE Fulfilled(Undefined)

(***************************************************************************)
(* Response envelopes and parseResponse                                    *)
(***************************************************************************)
Envelope(httpStatus, statusCode, statusMessage, response) ==
    Obj([statusCode |-> Num(httpStatus),
         body |-> Obj([status_code |-> Num(statusCode),
                       status_message |-> Str(statusMessage),
                       response |-> response])])

Payload == Obj([Messages |-> Arr(<<Str("MSG1")>>)])

Envelopes ==
    {Envelope(200, 200, "OK", Payload),
     Envelope(200, 210, "Argument error", Null),
     Envelope(201, 200, "OK", Payload),
     Envelope(500, 200, "OK", Payload),
     Envelope(500, 500, "Internal error", Null)}

\* got and request-promise hand a response to .then only when its HTTP status
\* is 2xx; any other status is a failure of the transport.
TransportResponses ==
    {e \in Envelopes : Get(e, "statusCode").n \in 200..299}

TransportErrors ==
    {[t |-> "RequestError", s |-> "connect ECONNREFUSED", n |-> 0, o |-> NoProps],
     [t |-> "HTTPError", s |-> "Response code 500", n |-> 0, o |-> NoProps]}

\* response.statusCode === 200 && response.body.status_code === 200
isOk(response) ==
    /\ Get(response, "statusCode") = Num(200)
    /\ Get(Get(response, "body"), "status_code") = Num(200)

APIErrorPrefix == "Pushwoosh API responded with argument error: "

\* the reason parseResponse rejects with
apiError(r, response) ==
    IF r = "got"
    THEN Error(APIErrorPrefix \o Get(Get(response, "body"), "status_message").s)
    ELSE Get(response, "body")

\* the executor of parseResponse(response, cb)
parseResponseExecutor(r, response, cb) ==
    IF isOk(response)
    THEN handleSuccess(r, cb, Get(Get(response, "body"), "response"))
    ELSE handleRejection(r, cb, apiError(r, response))

(***************************************************************************)
(* The executors of the public operations.  An executor either hands one   *)
(* request to the transport (req) or ends with the effect of a helper or   *)
(* of a throw (eff).                                                       *)
(***************************************************************************)
NoEffect == [calls |-> <<>>, settle |-> <<>>, thr |-> <<>>]

Requests(options) == [eff |-> NoEffect, req |-> <<options>>]

Ends(eff) == [eff |-> eff, req |-> <<>>]

\* `${v}` in a template string
TemplateStr(v) ==
    CASE v.t = "string" -> v.s
      [] v.t = "undefined" -> "undefined"
      [] OTHER -> v.t

\* the options sendRequest hands to got (lines 69-74) or to request-promise.
\* The factory builds its uri from the module's `this`, which has neither a
\* host nor a version, so its uri has no scheme and no host (absolute FALSE).
sendRequestOptions(r, self, action, data) ==
    [method |-> "POST",
     uri |-> IF r = "factory"
             THEN TemplateStr(Get(self, "host")) \o "/"
                  \o TemplateStr(Get(self, "version")) \o "/" \o action
             ELSE "https://" \o TemplateStr(Get(self, "host")) \o "/json/"
                  \o TemplateStr(Get(self, "version")) \o "/" \o action,
     absolute |-> r # "factory",
     action |-> action,
     body |-> data]

\* how sendMessage binds its arguments: "got" is sendMessage(options, cb),
\* the others sendMessage(message, options, cb) with the message optionally
\* given as options.content of the first argument.
bindSendMessage(r, a1, a2, a3) ==
    IF r = "got"
    THEN [message |-> Undefined, options |-> a1, cb |-> a2]
    ELSE IF isObject(a1) /\ has(a1, "content")
    THEN [message |-> Get(a1, "content"), options |-> a1,
          cb |-> IF isFunction(a2) THEN a2 ELSE a3]
    ELSE [message |-> a1, options |-> a2, cb |-> a3]

\* let defaults of sendMessage
messageDefaults(r, message) ==
    IF r = "got"
    THEN [send_date |-> Str("now"), ignore_user_timezone |-> Bool(TRUE),
          minimize_link |-> Num(0)]
    ELSE [send_date |-> Str("now"), ignore_user_timezone |-> Bool(TRUE),
          content |-> message]

\* notification with the arguments of _.extend swapped: the defaults win
notificationMutant(r, message, options) ==
    IF r = "got"
    THEN extend(Props(options), messageDefaults(r, message))
    ELSE extend(extend(Props(options), messageDefaults(r, message)),
                [content |-> message])

\* the notification of the request: _.extend({}, defaults, options) in "got",
\* _.extend({}, defaults, options, {content: message}) in the others
notification(r, message, options) ==
    IF r = "got"
    THEN extend(messageDefaults(r, message), Props(options))
    ELSE extend(extend(messageDefaults(r, message), Props(options)),
                [content |-> message])

\* addressing without the else: application is always set
addressingMutant(self) ==
    IF Truthy(Get(self, "useAppGroup"))
    THEN [application_group |-> Get(self, "app"),
          application |-> Get(self, "app")]
    ELSE [application |-> Get(self, "app")]

\* body.request.application_group or body.request.application
addressing(self) ==
    IF Truthy(Get(self, "useAppGroup"))
    THEN [application_group |-> Get(self, "app")]
    ELSE [application |-> Get(self, "app")]

messageBody(r, self, message, options) ==
    Obj([request |->
           Obj(extend([auth |-> Get(self, "token"),
                       notifications |->
                           Arr(<<Obj(notification(r, message, options))>>)],
                      addressing(self)))])

sendMessageExecutor(r, self, b) ==
    IF r # "got" /\ ~isString(b.message)
    THEN Ends(handleRejection(r, b.cb,
                 Error("options.message should be provided as a string")))
    ELSE IF r = "factory"
    THEN Ends(Throws(SelfTypeError))
    ELSE Requests(sendRequestOptions(r, self, "createMessage",
                     messageBody(r, self, b.message, b.options)))

\* registerDeviceCheck with the first check inverted like the other two
registerDeviceCheckMutant(options) ==
    IF isString(Get(options, "push_token"))
    THEN <<Error("Device push token is mandatory (string)")>>
    ELSE IF isString(Get(options, "hwid"))
    THEN <<Error("Device hwid token is mandatory (string)")>>
    ELSE IF isNumber(Get(options, "device_type"))
    THEN <<Error("Device type is mandatory (number)")>>
    ELSE <<>>

\* the three checks of registerDevice, in the order of the code; the second
\* and the third reject when the field HAS the type the message asks for
registerDeviceCheck(options) ==
    IF ~isString(Get(options, "push_token"))
    THEN <<Error("Device push token is mandatory (string)")>>
    ELSE IF isString(Get(options, "hwid"))
    THEN <<Error("Device hwid token is mandatory (string)")>>
    ELSE IF isNumber(Get(options, "device_type"))
    THEN <<Error("Device type is mandatory (number)")>>
    ELSE <<>>

registerDeviceBody(self, options) ==
    Obj([request |->
           Obj(extend([application |-> Get(self, "app")], Props(options)))])

registerDeviceExecutor(r, self, options, cb) ==
    IF registerDeviceCheck(options) # <<>>
    THEN Ends(handleRejection(r, cb, registerDeviceCheck(options)[1]))
    ELSE IF r = "factory"
    THEN Ends(Throws(SelfTypeError))
    ELSE Requests(sendRequestOptions(r, self, "registerDevice",
                     registerDeviceBody(self, options)))

deleteMessageBody(self, code) ==
    Obj([request |-> Obj([auth |-> Get(self, "token"), message |-> code])])

deleteMessageExecutor(r, self, code, cb) ==
    IF ~isString(code)
    THEN Ends(handleRejection(r, cb, Error("Message id is mandatory (string)")))
    ELSE IF r = "factory"
    THEN Ends(Throws(SelfTypeError))
    ELSE Requests(sendRequestOptions(r, self, "deleteMessage",
                     deleteMessageBody(self, code)))

\* Inputs of the constructor
Apps == {Str("APP"), Str(""), Undefined, Num(7)}

Tokens == {Str("TOKEN"), Str(""), Num(5)}

CtorOptions ==
    {Undefined,
     Obj([useAppGroup |-> Bool(TRUE)]),
     Obj([useAppGroup |-> Bool(FALSE), timeout |-> Num(5)]),
     Obj([host |-> Str("example.org"), version |-> Str("1.2"),
          app |-> Str("OTHER"), token |-> Str("OTHER")])}

Init ==
    /\ rev \in Revisions
    /\ client = Undefined
    /\ ctor = NoCtor
    /\ call = NoCall
    /\ pc = "idle"
    /\ answer = Pending
    /\ reg = Pending
    /\ psr = Pending
    /\ future = Pending
    /\ cbLog = <<>>
    /\ settles = <<>>
    /\ requests = <<>>
    /\ ncalls = 0

\* new PushwooshClient(app, token, options)
constructor(app, token, options) ==
    /\ client = Undefined
    /\ ctor' = [called |-> TRUE, app |-> app, token |-> token,
                options |-> options, threw |-> ctorThrows(app, token)]
    /\ client' = IF ctorThrows(app, token)
                 THEN Undefined
                 ELSE newClient(rev, app, token, options)
    /\ UNCHANGED <<rev, call, pc, answer, reg, psr, future, cbLog, settles,
                   requests, ncalls>>

(***************************************************************************)
(* Inputs of the public operations                                         *)
(***************************************************************************)
Cb == Fn("cb")

Callbacks == {Undefined, Cb}

Devices == Arr(<<Str("d1")>>)

\* first argument of sendMessage
MessageArgs ==
    {Str("hello"),
     Num(42),
     Obj([content |-> Str("hello")]),
     Obj([content |-> Str("x"), devices |-> Devices]),
     Obj([content |-> Str("x"), send_date |-> Str("2030-01-01 00:00"),
          ignore_user_timezone |-> Bool(FALSE)]),
     Obj([content |-> Num(42)]),
     Obj([devices |-> Devices])}

\* second argument of sendMessage: nothing, a callback or an options object
OptionArgs ==
    {Undefined, Cb, Obj([devices |-> Devices, content |-> Str("other")])}

Present(key, vals) == {NoProps} \cup {[k \in {key} |-> v] : v \in vals}

Registrations ==
    {Obj(extend(extend(p, h), d)) :
        p \in Present("push_token", {Str("PUSHTOKEN"), Num(1)}),
        h \in Present("hwid", {Str("HWID")}),
        d \in Present("device_type", {Num(3)})}

MessageCodes == {Str("MSG1"), Num(42), Undefined}

RequestData == Obj([request |-> Obj([auth |-> Str("TOKEN")])])

(***************************************************************************)
(* The public operations                                                   *)
(***************************************************************************)
\* A call of a public operation runs the operation's executor at once.
Invoke(op, args, cb, start) ==
    /\ client # Undefined
    /\ pc = "idle"
    /\ ncalls < MaxCalls
    /\ call' = [op |-> op, args |-> args, cb |-> cb]
    /\ ncalls' = ncalls + 1
    /\ cbLog' = start.eff.calls
    /\ settles' = ExecutorSettles(start.eff)
    /\ future' = Settle(Pending, ExecutorSettles(start.eff))
    /\ requests' = start.req
    /\ pc' = IF start.req # <<>> THEN "transport" ELSE "done"
    /\ answer' = Pending
    /\ reg' = Pending
    /\ psr' = Pending
    /\ UNCHANGED <<rev, client, ctor>>

sendMessage(a1, a2, a3) ==
    LET b == bindSendMessage(rev, a1, a2, a3)
    IN  Invoke("sendMessage", <<a1, a2, a3>>, b.cb,
               sendMessageExecutor(rev, Self, b))

registerDevice(options, cb) ==
    Invoke("registerDevice", <<options, cb>>, cb,
           registerDeviceExecutor(rev, Self, options, cb))

deleteMessage(code, cb) ==
    Invoke("deleteMessage", <<code, cb>>, cb,
           deleteMessageExecutor(rev, Self, code, cb))

sendRequest(action, data, cb) ==
    Invoke("sendRequest", <<Str(action), data, cb>>, cb,
           Requests(sendRequestOptions(rev, Self, action, data)))

parseResponse(response, cb) ==
    Invoke("parseResponse", <<response, cb>>, cb,
           Ends(parseResponseExecutor(rev, response, cb)))

(***************************************************************************)
(* The transport and the handlers of the promise chains                    *)
(***************************************************************************)
\* the transport answers the request in flight with a 2xx response
TransportRespond(response) ==
    /\ pc = "transport"
    /\ requests[1].absolute
    /\ answer' = Fulfilled(response)
    /\ reg' = Fulfilled(response)
    /\ pc' = "sr_then"
    /\ UNCHANGED <<rev, client, ctor, call, psr, future, cbLog, settles,
                   requests, ncalls>>

\* the transport fails: no connection, a status that is not 2xx, a bad uri
TransportFail(error) ==
    /\ pc = "transport"
    /\ answer' = Rejected(error)
    /\ reg' = Rejected(error)
    /\ pc' = "sr_then"
    /\ UNCHANGED <<rev, client, ctor, call, psr, future, cbLog, settles,
                   requests, ncalls>>

\* the cb argument of sendRequest: the domain operations pass none
SrCb == IF call.op = "sendRequest" THEN call.cb ELSE Undefined

\* A handler of sendRequest's chain ran with effect eff: its resolve/reject
\* are those of sendRequest's promise, which is the returned future when
\* sendRequest is the public operation called.
SrApply(eff) ==
    /\ cbLog' = cbLog \o eff.calls
    /\ IF call.op = "sendRequest"
       THEN /\ future' = Settle(future, eff.settle)
            /\ settles' = settles \o eff.settle
            /\ psr' = psr
       ELSE /\ psr' = Settle(psr, eff.settle)
            /\ UNCHANGED <<future, settles>>

\* .then((response) => handleSuccess(resolve, cb, response)) of sendRequest
sendRequestThen ==
    /\ pc = "sr_then"
    /\ LET eff == IF reg.st = "fulfilled"
                  THEN handleSuccess(rev, SrCb, reg.v) ELSE NoEffect
       IN  /\ SrApply(eff)
           /\ reg' = IF reg.st = "fulfilled" THEN Link(eff) ELSE reg
    /\ pc' = "sr_catch"
    /\ UNCHANGED <<rev, client, ctor, call, answer, requests, ncalls>>

\* .catch((error) => handleRejection(reject, cb, error)) of sendRequest; the
\* chain of the calling operation then runs on sendRequest's promise, if that
\* promise was settled.
sendRequestCatch ==
    /\ pc = "sr_catch"
    /\ LET eff == IF reg.st = "rejected"
                  THEN handleRejection(rev, SrCb, reg.v) ELSE NoEffect
           p == Settle(psr, eff.settle)
       IN  /\ SrApply(eff)
           /\ IF call.op = "sendRequest" \/ p.st = "pending"
              THEN /\ pc' = "done"
                   /\ reg' = IF reg.st = "rejected" THEN Link(eff) ELSE reg
              ELSE /\ pc' = IF rev = "got" /\ call.op = "sendMessage"
                            THEN "op_parse" ELSE "op_then"
                   /\ reg' = p
    /\ UNCHANGED <<rev, client, ctor, call, answer, requests, ncalls>>

\* .then((response) => parseResponse(response, cb)) of sendMessage ("got"):
\* the chain goes on with the promise parseResponse returns
sendMessageThenParse ==
    /\ pc = "op_parse"
    /\ LET eff == IF reg.st = "fulfilled"
                  THEN parseResponseExecutor(rev, reg.v, call.cb) ELSE NoEffect
       IN  /\ cbLog' = cbLog \o eff.calls
           /\ reg' = IF reg.st = "fulfilled"
                     THEN Settle(Pending, ExecutorSettles(eff)) ELSE reg
    /\ pc' = "op_then"
    /\ UNCHANGED <<rev, client, ctor, call, answer, psr, future, settles,
                   requests, ncalls>>

\* .then((x) => handleSuccess(resolve, cb, x)) of a domain operation
operationThen ==
    /\ pc = "op_then"
    /\ LET eff == IF reg.st = "fulfilled"
                  THEN handleSuccess(rev, call.cb, reg.v) ELSE NoEffect
       IN  /\ cbLog' = cbLog \o eff.calls
           /\ future' = Settle(future, eff.settle)
           /\ settles' = settles \o eff.settle
           /\ reg' = IF reg.st = "fulfilled" THEN Link(eff) ELSE reg
    /\ pc' = "op_catch"
    /\ UNCHANGED <<rev, client, ctor, call, answer, psr, requests, ncalls>>

\* .catch((error) => handleRejection(reject, cb, error)) of a domain operation
operationCatch ==
    /\ pc = "op_catch"
    /\ LET eff == IF reg.st = "rejected"
                  THEN handleRejection(rev, call.cb, reg.v) ELSE NoEffect
       IN  /\ cbLog' = cbLog \o eff.calls
           /\ future' = Settle(future, eff.settle)
           /\ settles' = settles \o eff.settle
           /\ reg' = IF reg.st = "rejected" THEN Link(eff) ELSE reg
    /\ pc' = "done"
    /\ UNCHANGED <<rev, client, ctor, call, answer, psr, requests, ncalls>>

\* Nothing of the call is left to run; the caller goes on to its next call.
Return ==
    /\ pc = "done"
    /\ pc' = "idle"
    /\ call' = NoCall
    /\ answer' = Pending
    /\ reg' = Pending
    /\ psr' = Pending
    /\ future' = Pending
    /\ cbLog' = <<>>
    /\ settles' = <<>>
    /\ requests' = <<>>
    /\ UNCHANGED <<rev, client, ctor, ncalls>>

Next ==
    \/ \E app \in Apps, token \in Tokens, options \in CtorOptions :
          constructor(app, token, options)
    \/ \E a1 \in MessageArgs, a2 \in OptionArgs, a3 \in Callbacks :
          sendMessage(a1, a2, a3)
    \/ \E options \in Registrations, cb \in Callbacks :
          registerDevice(options, cb)
    \/ \E code \in MessageCodes, cb \in Callbacks : deleteMessage(code, cb)
    \/ \E cb \in Callbacks : sendRequest("getTags", RequestData, cb)
    \/ \E response \in Envelopes, cb \in Callbacks : parseResponse(response, cb)
    \/ \E response \in TransportResponses : TransportRespond(response)
    \/ \E error \in TransportErrors : TransportFail(error)
    \/ sendRequestThen
    \/ sendRequestCatch
    \/ sendMessageThenParse
    \/ operationThen
    \/ operationCatch
    \/ Return

Spec == Init /\ [][Next]_vars

\* The current revision alone
InitGot == Init /\ rev = "got"

SpecGot == InitGot /\ [][Next]_vars

\* The timeout of the request in flight fires.  A timeout exists only when
\* the options handed to the transport name one; sendRequest passes method,
\* url and body alone, and neither got nor request-promise has a default.
TimedOut ==
    /\ pc = "transport"
    /\ "timeout" \in DOMAIN requests[1]
    /\ \E error \in TransportErrors : TransportFail(error)

\* What the scheduling guarantees: a handler of a settled promise runs, and a
\* timeout that was set fires.  Nothing makes the remote answer.
Fairness ==
    /\ WF_vars(sendRequestThen)
    /\ WF_vars(sendRequestCatch)
    /\ WF_vars(sendMessageThenParse)
    /\ WF_vars(operationThen)
    /\ WF_vars(operationCatch)
    /\ WF_vars(TimedOut)

SpecGotFair == InitGot /\ [][Next]_vars /\ Fairness

(***************************************************************************)
(* Properties                                                              *)
(***************************************************************************)
PublicOperations == {"sendMessage", "registerDevice", "deleteMessage", "sendRequest"}

DomainOperations == {"sendMessage", "registerDevice", "deleteMessage"}

\* the call has run to its end: no handler of it is left to run
Completed == pc = "done"

\* C1: a call of a public operation made with a callback invokes the
\* callback exactly once and settles the returned future exactly once: never
\* more than once while the call runs, and once when it has completed.
C1_ExactlyOnce ==
    (call.op \in PublicOperations /\ isFunction(call.cb)) =>
        /\ Len(cbLog) <= 1
        /\ Len(settles) <= 1
        /\ Completed => (Len(cbLog) = 1 /\ Len(settles) = 1
                         /\ future.st # "pending")

\* the call passed validation, the transport answered, and (sendMessage) the
\* answer has httpStatus 200 and body status 200
Succeeded ==
    /\ requests # <<>>
    /\ answer.st = "fulfilled"
    /\ call.op = "sendMessage" => isOk(answer.v)

\* what a successful call yields
Result ==
    IF call.op = "sendMessage"
    THEN Get(Get(answer.v, "body"), "response")
    ELSE answer.v

\* C2: when a public operation called with a callback succeeds, the callback
\* is invoked with (null, result) and the returned future is fulfilled with
\* the same result.
C2_SuccessReported ==
    (Completed /\ call.op \in PublicOperations /\ isFunction(call.cb)
       /\ Succeeded) =>
        /\ cbLog = << <<Null, Result>> >>
        /\ future = Fulfilled(Result)

\* the error e holds the status code of the envelope's body
CarriesStatusCode(e, body) ==
    \E k \in DOMAIN e.o : e.o[k] = Get(body, "status_code")

\* the error e holds the status message of the envelope's body, as a property
\* or in its message
CarriesStatusMessage(e, body) ==
    \/ \E k \in DOMAIN e.o : e.o[k] = Get(body, "status_message")
    \/ e.s = APIErrorPrefix \o Get(body, "status_message").s

\* C3: parseResponse fulfils with body.response if and only if the envelope
\* has httpStatus 200 and body status_code 200; otherwise it rejects with an
\* error that carries the remote status code and the remote status message.
C3_ParseResponse ==
    (Completed /\ call.op = "parseResponse") =>
        LET response == call.args[1]
            body == Get(response, "body")
        IN  IF Get(response, "statusCode") = Num(200)
               /\ Get(body, "status_code") = Num(200)
            THEN future = Fulfilled(Get(body, "response"))
            ELSE /\ future.st = "rejected"
                 /\ CarriesStatusCode(future.v, body)
                 /\ CarriesStatusMessage(future.v, body)

\* C4: when the remote answers a domain operation with an envelope that is
\* not (httpStatus 200, body status 200), the future is rejected with an
\* error, never fulfilled, and a supplied callback gets that error first.
C4_RemoteRejectionSurfaced ==
    (Completed /\ call.op \in DomainOperations /\ answer.st = "fulfilled"
       /\ ~(/\ Get(answer.v, "statusCode") = Num(200)
            /\ Get(Get(answer.v, "body"), "status_code") = Num(200))) =>
        /\ future.st = "rejected"
        /\ future.v.t = "Error"
        /\ isFunction(call.cb) =>
              /\ cbLog # <<>>
              /\ \A i \in 1..Len(cbLog) : cbLog[i][1] = future.v

\* the call is a registerDevice whose push token is not a string, or a
\* deleteMessage whose message id is not a string
InvalidToken ==
    /\ call.op = "registerDevice"
    /\ Get(call.args[1], "push_token").t # "string"

InvalidCode ==
    /\ call.op = "deleteMessage"
    /\ call.args[1].t # "string"

\* C5: registerDevice with a push token that is not a string and
\* deleteMessage with a message id that is not a string reject with the
\* validation error, and no request of the call reaches the transport.
C5_ValidationBeforeRequest ==
    /\ InvalidToken =>
          /\ requests = <<>>
          /\ answer = Pending
          /\ future = Rejected(Error("Device push token is mandatory (string)"))
    /\ InvalidCode =>
          /\ requests = <<>>
          /\ answer = Pending
          /\ future = Rejected(Error("Message id is mandatory (string)"))

\* a deleteMessage(42) that has been rejected
C5_Witness ==
    /\ Completed
    /\ call.op = "deleteMessage"
    /\ call.args[1] = Num(42)
    /\ future.st = "rejected"
    /\ requests = <<>>

\* C6: a registration with a string push_token, a string hwid and a numeric
\* device_type passes validation and is sent via registerDevice; one whose
\* push_token is not a string is rejected for the push token, and one whose
\* hwid is not a string or whose device_type is not a number is rejected
\* with a validation error.
C6_RegisterValidation ==
    call.op = "registerDevice" =>
        LET token == Get(call.args[1], "push_token")
            hwid == Get(call.args[1], "hwid")
            type == Get(call.args[1], "device_type")
        IN  /\ (token.t = "string" /\ hwid.t = "string" /\ type.t = "number") =>
                  /\ requests # <<>>
                  /\ requests[1].action = "registerDevice"
            /\ token.t # "string" =>
                  future = Rejected(Error("Device push token is mandatory (string)"))
            /\ (token.t = "string" /\ (hwid.t # "string" \/ type.t # "number")) =>
                  /\ requests = <<>>
                  /\ future.st = "rejected"
                  /\ future.v.t = "Error"

\* no string content can be resolved from the arguments of the sendMessage
NoStringContent ==
    /\ call.op = "sendMessage"
    /\ call.args[1].t # "string"
    /\ Get(call.args[1], "content").t # "string"

\* C7: a sendMessage from whose arguments no string content can be resolved
\* rejects with a validation error and issues no createMessage request.
C7_NoContentRejected ==
    NoStringContent =>
        /\ requests = <<>>
        /\ future.st = "rejected"
        /\ future.v.t = "Error"

\* the request part of the body of the request in flight, and its notification
RequestOf(r) == Get(r.body, "request")

NotificationOf(r) == Get(Get(RequestOf(r), "notifications"), "0").o

OneNotification(r) ==
    /\ Get(RequestOf(r), "notifications").t = "array"
    /\ DOMAIN Get(RequestOf(r), "notifications").o = {"0"}

C9_OneAddressingKey ==
    (call.op = "sendMessage" /\ requests # <<>>) =>
        LET R == RequestOf(requests[1]).o
        IN  IF Get(client, "useAppGroup") = Bool(TRUE)
            THEN /\ "application_group" \in DOMAIN R
                 /\ "application" \notin DOMAIN R
                 /\ R["application_group"] = Get(client, "app")
            ELSE /\ "application" \in DOMAIN R
                 /\ "application_group" \notin DOMAIN R
                 /\ R["application"] = Get(client, "app")

\* a request of sendMessage on a client in group mode
C9_Witness ==
    /\ call.op = "sendMessage"
    /\ requests # <<>>
    /\ Get(client, "useAppGroup") = Bool(TRUE)
    /\ "application_group" \in DOMAIN RequestOf(requests[1]).o

NonEmptyString(v) == v.t = "string" /\ v.s # ""

\* the configuration of a constructed client: the supplied options over the
\* defaults, and the constructor's app and token
ConfigMerged ==
    /\ Get(client, "app") = ctor.app
    /\ Get(client, "token") = ctor.token
    /\ Get(client, "host") =
          (IF ctor.options.t = "object" /\ "host" \in DOMAIN ctor.options.o
           THEN ctor.options.o["host"] ELSE Str("cp.pushwoosh.com"))
    /\ Get(client, "version") =
          (IF ctor.options.t = "object" /\ "version" \in DOMAIN ctor.options.o
           THEN ctor.options.o["version"] ELSE Str("1.3"))

ArgumentsValid ==
    CASE call.op = "sendMessage" ->
           \/ rev = "got"
           \/ call.args[1].t = "string"
           \/ Get(call.args[1], "content").t = "string"
      [] call.op = "registerDevice" ->
           /\ Get(call.args[1], "push_token").t = "string"
           /\ Get(call.args[1], "hwid").t # "string"
           /\ Get(call.args[1], "device_type").t # "number"
      [] call.op = "deleteMessage" -> call.args[1].t = "string"
      [] OTHER -> TRUE

\* the action of the API the operation called stands for
ActionOf(c) ==
    CASE c.op = "sendMessage" -> "createMessage"
      [] c.op = "registerDevice" -> "registerDevice"
      [] c.op = "deleteMessage" -> "deleteMessage"
      [] OTHER -> c.args[1].s

\* C11: a call of a public operation issues at most one POST, and exactly
\* one when its arguments pass validation; that request goes to
\* https://{host}/json/{version}/{action} with the action of the operation,
\* and no answer or failure of the transport adds a second request.
C11_OnePost ==
    call.op \in PublicOperations =>
        /\ Len(requests) <= 1
        /\ ArgumentsValid =>
              /\ Len(requests) = 1
              /\ requests[1].method = "POST"
              /\ requests[1].uri =
                    "https://" \o Get(client, "host").s \o "/json/"
                    \o Get(client, "version").s \o "/" \o ActionOf(call)

\* C12: every call whose request is in flight eventually completes: its
\* future is settled, by the answer or by the timeout, even when the remote
\* never answers.
C12_EventuallyCompletes == (pc = "transport") ~> (future.st # "pending")
====
